---- MODULE Spec2Model ----
(***************************************************************************)
(* Model of parse_questions.py: the table-row scraper                      *)
(* extract_questions_from_html (BeautifulSoup path and regex fallback      *)
(* path) and the command-line driver main.                                 *)
(*                                                                         *)
(* Text is a sequence of tokens.  A token is one character, except that    *)
(* the literal "正確答案為" is the single token MARK, each header label is  *)
(* one token, and an inline tag (<br>, <span>, </span>) is one token.      *)
(* A document is a sequence of table rows, a row a sequence of td cells,   *)
(* a cell its colspan attribute and its inner markup.                      *)
(*                                                                         *)
(* The module also models the two other programs of the repository, each   *)
(* under a specification of its own: automate_actions.py (ActionAutomator, *)
(* SpecAutomator) and record_mouse_keyboard.py (ActionRecorder,            *)
(* SpecRecorder), both as a main thread interleaved with the threads of    *)
(* their pynput listeners.  SpecFiles runs main repeatedly over a          *)
(* directory that already holds files.  A specification leaves the         *)
(* variables of the other programs at their constructed values.            *)
(***************************************************************************)
EXTENDS Integers, Sequences, FiniteSets, TLC

\* ------------------------------------------------------------------------
\* Tokens
\* ------------------------------------------------------------------------
MARK == "MARK"          \* the literal 正確答案為
BR == "<br>"
SPAN_OPEN == "<span>"
SPAN_CLOSE == "</span>"
NL == "\n"
\* answer_index = None (no index is 0: the patterns only yield 1..4)
None == 0

Tags == {BR, SPAN_OPEN, SPAN_CLOSE}
\* characters matched by \s (str.strip() drops the same ones)
Whitespace == {" ", NL}
\* [:：]; the full-width colon is the token FWCOLON
Colons == {":", "FWCOLON"}
\* [1-4]
OptDigits == {"1", "2", "3", "4"}

\* int(m.group(1)) for a one-digit group
DigitValue(c) == CASE c = "1" -> 1 [] c = "2" -> 2 [] c = "3" -> 3 [] c = "4" -> 4

\* the decimal digits, for int() and str() of numbers
DigitChars == <<"0", "1", "2", "3", "4", "5", "6", "7", "8", "9">>
CharDigit(c) == CHOOSE d \in 0..9 : DigitChars[d + 1] = c

\* header_keys = {'題號', '答案', '題目'}; each label is one token
header_keys == {<<"TIHAO">>, <<"DAAN">>, <<"TIMU">>}

\* ------------------------------------------------------------------------
\* String primitives
\* ------------------------------------------------------------------------
Take(s, n) == SubSeq(s, 1, n)
Drop(s, n) == SubSeq(s, n + 1, Len(s))

RECURSIVE LStrip(_)
LStrip(s) == IF s # <<>> /\ Head(s) \in Whitespace THEN LStrip(Tail(s)) ELSE s

RECURSIVE RStrip(_)
RStrip(s) == IF s # <<>> /\ s[Len(s)] \in Whitespace THEN RStrip(Take(s, Len(s) - 1)) ELSE s

\* str.strip()
Strip(s) == RStrip(LStrip(s))

\* re.sub(r'\s+', ' ', s)
RECURSIVE CollapseWs(_)
CollapseWs(s) ==
    IF s = <<>> THEN <<>>
    ELSE IF Head(s) \in Whitespace THEN <<" ">> \o CollapseWs(LStrip(s))
    ELSE <<Head(s)>> \o CollapseWs(Tail(s))

\* the position after a greedy \s* that starts at position i
RECURSIVE SkipWs(_, _)
SkipWs(s, i) == IF i <= Len(s) /\ s[i] \in Whitespace THEN SkipWs(s, i + 1) ELSE i

\* str.splitlines(): the lines of s, without their line ends; a trailing
\* line end opens no further line
RECURSIVE SplitFrom(_, _)
SplitFrom(s, cur) ==
    IF s = <<>> THEN (IF cur = <<>> THEN <<>> ELSE <<cur>>)
    ELSE IF Head(s) = NL THEN <<cur>> \o SplitFrom(Tail(s), <<>>)
    ELSE SplitFrom(Tail(s), Append(cur, Head(s)))

splitlines(s) == SplitFrom(s, <<>>)

\* [p.strip() for p in q_text.splitlines() if p.strip()]
RECURSIVE StripNonEmpty(_)
StripNonEmpty(ls) ==
    IF ls = <<>> THEN <<>>
    ELSE IF Strip(Head(ls)) # <<>> THEN <<Strip(Head(ls))>> \o StripNonEmpty(Tail(ls))
    ELSE StripNonEmpty(Tail(ls))

\* ------------------------------------------------------------------------
\* The two regular expressions of the scraper
\* ------------------------------------------------------------------------
\* 正確答案為[:：]?\s*([1-4]) anchored at position i: the position of the
\* digit that ends the match, 0 when there is no match at i
AnswerMarkEnd(s, i) ==
    IF i > Len(s) \/ s[i] # MARK THEN 0
    ELSE LET j == IF i + 1 <= Len(s) /\ s[i + 1] \in Colons THEN i + 2 ELSE i + 1
             k == SkipWs(s, j)
         IN  IF k <= Len(s) /\ s[k] \in OptDigits THEN k ELSE 0

\* re.search(r'正確答案為[:：]?\s*([1-4])', s): int(group(1)) of the leftmost
\* match, None without a match
RECURSIVE SearchAnswerMark(_, _)
SearchAnswerMark(s, i) ==
    IF i > Len(s) THEN None
    ELSE IF AnswerMarkEnd(s, i) # 0 THEN DigitValue(s[AnswerMarkEnd(s, i)])
    ELSE SearchAnswerMark(s, i + 1)

\* re.sub(r'正確答案為[:：]?\s*[1-4]', '', s): one left-to-right pass
RECURSIVE SubAnswerMark(_)
SubAnswerMark(s) ==
    IF s = <<>> THEN <<>>
    ELSE IF AnswerMarkEnd(s, 1) # 0 THEN SubAnswerMark(Drop(s, AnswerMarkEnd(s, 1)))
    ELSE <<Head(s)>> \o SubAnswerMark(Tail(s))

\* re.search(r'([1-4])', s): the first digit 1..4, None without one
RECURSIVE SearchDigit(_)
SearchDigit(s) ==
    IF s = <<>> THEN None
    ELSE IF Head(s) \in OptDigits THEN DigitValue(Head(s))
    ELSE SearchDigit(Tail(s))

\* \(\s*([1-4])\s*\) anchored at position i: the position of the closing
\* parenthesis, 0 when there is no match at i
OptionMarkEnd(s, i) ==
    IF i > Len(s) \/ s[i] # "(" THEN 0
    ELSE LET d == SkipWs(s, i + 1)
         IN  IF d <= Len(s) /\ s[d] \in OptDigits
             THEN LET c == SkipWs(s, d + 1)
                  IN  IF c <= Len(s) /\ s[c] = ")" THEN c ELSE 0
             ELSE 0

\* list(re.finditer(r'\(\s*([1-4])\s*\)', q_text)) from position i on: each
\* match with m.start() - 1 as before, m.end() as last and int(m.group(1))
RECURSIVE FindOptionStarts(_, _)
FindOptionStarts(s, i) ==
    IF i > Len(s) THEN <<>>
    ELSE IF OptionMarkEnd(s, i) # 0
         THEN <<[before |-> i - 1, last |-> OptionMarkEnd(s, i),
                 num |-> DigitValue(s[SkipWs(s, i + 1)])]>>
              \o FindOptionStarts(s, OptionMarkEnd(s, i) + 1)
    ELSE FindOptionStarts(s, i + 1)

option_starts(q_text) == FindOptionStarts(q_text, 1)

\* ------------------------------------------------------------------------
\* Building one record from the question text (the code is the same on both
\* paths: lines 95-123 and 172-197)
\* ------------------------------------------------------------------------
\* options = ["", "", "", ""]: the empty string is the empty token sequence
NoOptions == <<<<>>, <<>>, <<>>, <<>>>>

\* slip: the slot is the scan position of the marker, not its number
OptionSlot_ByPosition(m, i) == IF i <= 4 THEN i ELSE m.num

\* idx = int(m.group(1)) - 1: the slot of the i-th marker m (slots are 1..4
\* here, 0..3 in the code)
OptionSlot(m, i) == m.num

\* q_text[start:end] of the i-th marker, stripped and whitespace-collapsed
OptionText(q_text, starts, i) ==
    LET start == starts[i].last
        end == IF i + 1 <= Len(starts) THEN starts[i + 1].before ELSE Len(q_text)
    IN  Strip(CollapseWs(Strip(SubSeq(q_text, start + 1, end))))

\* for i, m in enumerate(option_starts): options[idx] = opt
RECURSIVE AssignOptions(_, _, _, _)
AssignOptions(q_text, starts, i, options) ==
    IF i > Len(starts) THEN options
    ELSE AssignOptions(q_text, starts, i + 1,
             [options EXCEPT ![OptionSlot(starts[i], i)] = OptionText(q_text, starts, i)])

\* q_title of the marker branch
MarkerTitle(q_text, starts) == CollapseWs(Strip(Take(q_text, starts[1].before)))

\* slip: "more than 5 lines" in place of "at least 5 lines"
LineFallback_MoreThanFive(q_text) ==
    LET parts == StripNonEmpty(splitlines(q_text))
    IN  IF Len(parts) > 5
        THEN [title |-> parts[1], options |-> <<parts[2], parts[3], parts[4], parts[5]>>]
        ELSE [title |-> q_text, options |-> NoOptions]

\* title and options of the branch without markers
LineFallback(q_text) ==
    LET parts == StripNonEmpty(splitlines(q_text))
    IN  IF Len(parts) >= 5
        THEN [title |-> parts[1], options |-> <<parts[2], parts[3], parts[4], parts[5]>>]
        ELSE [title |-> q_text, options |-> NoOptions]

\* title and options of a question text
TitleAndOptions(q_text) ==
    LET starts == option_starts(q_text)
    IN  IF starts # <<>>
        THEN [title |-> MarkerTitle(q_text, starts),
              options |-> AssignOptions(q_text, starts, 1, NoOptions)]
        ELSE LineFallback(q_text)

\* slip: options[answer_index], one slot too far
AnswerText_OffByOne(options, answer_index) ==
    IF answer_index # None /\ 1 <= answer_index /\ answer_index < 4
    THEN options[answer_index + 1]
    ELSE <<>>

\* slip: the answer is the digit of the index, not the option text
AnswerText_Digit(options, answer_index) ==
    IF answer_index # None /\ 1 <= answer_index /\ answer_index <= 4
    THEN <<DigitChars[answer_index + 1]>>
    ELSE <<>>

\* answer_text = options[answer_index-1] if answer_index and 1 <= answer_index <= 4
AnswerText(options, answer_index) ==
    IF answer_index # None /\ 1 <= answer_index /\ answer_index <= 4
    THEN options[answer_index]
    ELSE <<>>

\* the tuple (q_title, options[0], ..., options[3], answer_text), with the
\* four option fields kept together
MakeRecord(q_text, answer_index) ==
    LET to == TitleAndOptions(q_text)
    IN  [title |-> to.title, options |-> to.options,
         answer |-> AnswerText(to.options, answer_index)]

\* ------------------------------------------------------------------------
\* Regex fallback path (lines 125-197).  On a table whose rows and cells
\* are properly closed and not nested, re.findall over <tr>...</tr> and
\* <td>...</td> yields the rows and the inner markup of their cells.
\* ------------------------------------------------------------------------
\* re.sub(r'<br\s*/?>', '\n', s)
RECURSIVE BrToNewline(_)
BrToNewline(s) ==
    IF s = <<>> THEN <<>>
    ELSE <<(IF Head(s) = BR THEN NL ELSE Head(s))>> \o BrToNewline(Tail(s))

\* re.sub(r'<.*?>', '', s)
RECURSIVE RemoveTags(_)
RemoveTags(s) ==
    IF s = <<>> THEN <<>>
    ELSE IF Head(s) \in Tags THEN RemoveTags(Tail(s))
    ELSE <<Head(s)>> \o RemoveTags(Tail(s))

strip_tags(s) == Strip(RemoveTags(s))

\* colspan\s*=\s*"?\d+"? found in the row's markup: some td of the row has
\* a colspan attribute with a number as value
NumericColspans == {"2"}
RowHasColspanRe(tr) == \E k \in 1..Len(tr) : tr[k].colspan \in NumericColspans

\* first_text, second_text, third_text
CellTextRe(tr, k) == IF Len(tr) >= k THEN strip_tags(tr[k].html) ELSE <<>>

\* the row passes every "continue" of the fallback loop
QualifiesRe(tr) ==
    /\ tr # <<>>
    /\ ~RowHasColspanRe(tr)
    /\ ~(\E key \in header_keys : key \in {CellTextRe(tr, 1), CellTextRe(tr, 2), CellTextRe(tr, 3)})
    /\ Len(tr) >= 3

td_answer_text(tr) == Strip(RemoveTags(BrToNewline(tr[2].html)))
td_question_text(tr) == Strip(RemoveTags(BrToNewline(tr[3].html)))

AnswerIndexRe(tr) ==
    LET m == SearchAnswerMark(td_question_text(tr), 1)
    IN  IF m # None THEN m ELSE SearchDigit(td_answer_text(tr))

QTextRe(tr) == Strip(SubAnswerMark(td_question_text(tr)))

RecordRe(tr) == MakeRecord(QTextRe(tr), AnswerIndexRe(tr))

\* ------------------------------------------------------------------------
\* BeautifulSoup path (lines 45-123)
\* ------------------------------------------------------------------------
\* the text nodes of a cell in document order: the maximal runs of
\* characters between tags
RECURSIVE TextNodes(_, _)
TextNodes(s, cur) ==
    IF s = <<>> THEN (IF cur = <<>> THEN <<>> ELSE <<cur>>)
    ELSE IF Head(s) \in Tags
         THEN (IF cur = <<>> THEN <<>> ELSE <<cur>>) \o TextNodes(Tail(s), <<>>)
    ELSE TextNodes(Tail(s), Append(cur, Head(s)))

\* separator.join(nodes)
RECURSIVE Join(_, _)
Join(nodes, separator) ==
    IF nodes = <<>> THEN <<>>
    ELSE IF Len(nodes) = 1 THEN Head(nodes)
    ELSE Head(nodes) \o separator \o Join(Tail(nodes), separator)

\* tag.get_text(separator, strip=True): every text node stripped, the empty
\* ones dropped, the rest joined by the separator
get_text_strip(s, separator) == Join(StripNonEmpty(TextNodes(s, <<>>)), separator)

\* the contents of the <span> elements of a cell in document order (spans
\* are closed and not nested)
RECURSIVE SpanContents(_, _, _)
SpanContents(s, inside, cur) ==
    IF s = <<>> THEN <<>>
    ELSE IF Head(s) = SPAN_OPEN THEN SpanContents(Tail(s), TRUE, <<>>)
    ELSE IF Head(s) = SPAN_CLOSE THEN (IF inside THEN <<cur>> ELSE <<>>) \o SpanContents(Tail(s), FALSE, <<>>)
    ELSE SpanContents(Tail(s), inside, IF inside THEN Append(cur, Head(s)) ELSE cur)

\* span.string matches re.compile(r'正確答案為'): the span has one child, a
\* text node, and the literal occurs in it
SpanStringMatches(content) ==
    /\ content # <<>>
    /\ \A k \in 1..Len(content) : content[k] \notin Tags
    /\ \E k \in 1..Len(content) : content[k] = MARK

\* td_question_cell.find('span', string=re.compile(r'正確答案為')): the
\* content of the first matching span, wrapped in a tuple; <<>> for no span
RECURSIVE FirstMatchingSpan(_)
FirstMatchingSpan(spans) ==
    IF spans = <<>> THEN <<>>
    ELSE IF SpanStringMatches(Head(spans)) THEN <<Head(spans)>>
    ELSE FirstMatchingSpan(Tail(spans))

find_span(html) == FirstMatchingSpan(SpanContents(html, FALSE, <<>>))

\* first_text, second_text, third_text
CellTextBS4(tr, k) == IF Len(tr) >= k THEN get_text_strip(tr[k].html, <<>>) ELSE <<>>

\* the row passes every "continue" of the BeautifulSoup loop
QualifiesBS4(tr) ==
    /\ tr # <<>>
    /\ tr[1].colspan = "none"
    /\ ~(\E key \in header_keys : key \in {CellTextBS4(tr, 1), CellTextBS4(tr, 2), CellTextBS4(tr, 3)})
    /\ Len(tr) >= 3

AnswerIndexBS4(tr) ==
    LET span == find_span(tr[3].html)
        m == IF span # <<>> THEN SearchAnswerMark(RemoveTags(span[1]), 1) ELSE None
    IN  IF m # None THEN m ELSE SearchDigit(get_text_strip(tr[2].html, <<>>))

QTextBS4(tr) == SubAnswerMark(get_text_strip(tr[3].html, <<NL>>))

RecordBS4(tr) == MakeRecord(QTextBS4(tr), AnswerIndexBS4(tr))

\* results of the loop over rows i..Len(rows) on either path
RECURSIVE ExtractFrom(_, _, _)
ExtractFrom(rows, i, have_bs4) ==
    IF i > Len(rows) THEN <<>>
    ELSE (IF have_bs4
          THEN (IF QualifiesBS4(rows[i]) THEN <<RecordBS4(rows[i])>> ELSE <<>>)
          ELSE (IF QualifiesRe(rows[i]) THEN <<RecordRe(rows[i])>> ELSE <<>>))
         \o ExtractFrom(rows, i + 1, have_bs4)

\* extract_questions_from_html(html_text) under a given _HAVE_BS4
extract_questions_from_html(rows, have_bs4) == ExtractFrom(rows, 1, have_bs4)

\* ------------------------------------------------------------------------
\* Files
\* ------------------------------------------------------------------------
FILE_PREFIX == "1_"
DEFAULT_FORMAT == "csv"

\* a file name is its prefix, the characters up to the extension and the
\* extension; OUTPUT_DIR holds names, the explicit -o path is a name in the
\* working directory
\* (\d+) matches the whole stem
IsNumber(stem) ==
    /\ stem # <<>>
    /\ \A k \in 1..Len(stem) : \E d \in 1..10 : DigitChars[d] = stem[k]

\* int(match.group(1))
RECURSIVE ToInt(_)
ToInt(stem) ==
    IF stem = <<>> THEN 0
    ELSE ToInt(Take(stem, Len(stem) - 1)) * 10 + CharDigit(stem[Len(stem)])

\* f"{next_num}"
RECURSIVE Decimal(_)
Decimal(n) ==
    IF n < 10 THEN <<DigitChars[n + 1]>>
    ELSE Decimal(n \div 10) \o <<DigitChars[(n % 10) + 1]>>

FileName(prefix, stem, ext) == [prefix |-> prefix, stem |-> stem, ext |-> ext]
InOutputDir(name) == [dir |-> "parsed_questions_csv", name |-> name]
InWorkingDir(name) == [dir |-> ".", name |-> name]

\* output_path.glob(f"{prefix}*.{file_format}")
existing_files(names, prefix, file_format) ==
    {nm \in names : nm.prefix = prefix /\ nm.ext = file_format}

\* slip: the files are counted instead of their numbers compared
max_num_Count(names, prefix, file_format) ==
    Cardinality({x \in existing_files(names, prefix, file_format) : IsNumber(x.stem)})

\* max_num after the loop over existing_files
max_num(names, prefix, file_format) ==
    LET nums == {ToInt(nm.stem) : nm \in {x \in existing_files(names, prefix, file_format) : IsNumber(x.stem)}}
    IN  IF nums = {} THEN 0 ELSE CHOOSE n \in nums : \A k \in nums : k <= n

\* get_next_filename(prefix, output_dir, file_format): the returned path,
\* given the names in the directory after mkdir
get_next_filename(names, prefix, file_format) ==
    InOutputDir(FileName(prefix, Decimal(max_num(names, prefix, file_format) + 1), file_format))

\* ------------------------------------------------------------------------
\* Inputs
\* ------------------------------------------------------------------------
MaxChunks == 3
MaxLines == 6
MaxMarkers == 3
MaxRows == 3

Cell(colspan, html) == [colspan |-> colspan, html |-> html]

\* pieces of question-cell markup
Chunks ==
    { <<"a">>, <<" ">>, <<BR>>,
      <<"(", "1", ")">>, <<"(", "2", ")">>,
      <<MARK, ":", "1">>,
      <<SPAN_OPEN, MARK, ":", "2", SPAN_CLOSE>>,
      <<SPAN_OPEN, MARK, "5", SPAN_CLOSE>>,
      <<MARK>>, <<"2">> }

\* the concatenation of a sequence of texts
RECURSIVE Concat(_)
Concat(texts) ==
    IF Len(texts) = 0 THEN <<>>
    ELSE texts[1] \o Concat([i \in 1..(Len(texts) - 1) |-> texts[i + 1]])

\* question cells written as lines separated by <br>
Lines == { <<"a">>, <<" ", "b", " ">>, <<" ">> }
FirstLines == Lines \cup { <<"a", SPAN_OPEN, MARK, ":", "2", SPAN_CLOSE>> }

\* the lines of a cell, each after the first behind a <br>
LineText(first, rest) == first \o Concat([i \in 1..Len(rest) |-> <<BR>> \o rest[i]])

\* question cells written as a title followed by "(N)" markers and texts
OptionBodies == { <<>>, <<" ", "b", BR>> }
OptionPieces == { <<"(", d, ")">> \o body : d \in OptDigits, body \in OptionBodies }

OptionCellTitle == <<"a", " ">>

\* the question cells of the two end-to-end scenarios of the documentation
ExampleTexts ==
    { <<"a", "(", "1", ")", "a", "(", "2", ")", "b", "(", "3", ")", "a", "b", "(", "4", ")", "b", "a">>,
      <<"a", SPAN_OPEN, MARK, ":", "3", SPAN_CLOSE, BR,
        "(", "1", ")", "a", BR, "(", " ", "2", " ", ")", "b", BR, "(", "3", ")", "a", "b", BR, "(", "4", ")", "b">> }

AnswerCells == { <<>>, <<"1">>, <<"5", " ", "2", "1">> }

\* documents of one three-cell row
QuestionRow(answer, question) ==
    <<Cell("none", <<"1">>), Cell("none", answer), Cell("none", question)>>

QuestionRowExample == QuestionRow(<<"2">>, <<"a", "(", "1", ")", "a", "(", "2", ")", "b">>)
HeaderRowExample == <<Cell("none", <<"TIHAO">>), Cell("none", <<"DAAN">>), Cell("none", <<"TIMU">>)>>

\* rows of all shapes: question rows, header rows, title rows, short rows
RowShapes ==
    { QuestionRowExample,
      QuestionRow(<<>>, <<"b">>),
      HeaderRowExample,
      <<Cell("none", <<"1">>), Cell("none", <<"1">>), Cell("none", <<" ", SPAN_OPEN, "TIMU", SPAN_CLOSE, BR>>)>>,
      <<Cell("none", <<"1">>), Cell("none", <<"1">>), Cell("none", <<"TIMU", "a">>)>>,
      <<Cell("2", <<"a">>)>>,
      <<Cell("2", <<"1">>), Cell("none", <<"1">>), Cell("none", <<"a">>)>>,
      <<Cell("all", <<"1">>), Cell("none", <<"1">>), Cell("none", <<"a">>)>>,
      <<Cell("none", <<"1">>), Cell("none", <<"1">>), Cell("none", <<"b", "a">>), Cell("none", <<"TIHAO">>)>>,
      <<Cell("none", <<"1">>), Cell("2", <<"1">>), Cell("none", <<"a", "b">>)>>,
      <<Cell("none", <<"1">>), Cell("none", <<"1">>)>>,
      <<>> }

\* documents for the runs of main that differ in arguments and directory
MainDocs == { <<>>, <<HeaderRowExample>>, <<QuestionRowExample>>, <<QuestionRowExample, HeaderRowExample, QuestionRowExample>> }

\* the directory contents a run may start from
NameSamples ==
    { {},
      {FileName("1_", <<"1">>, "csv"), FileName("1_", <<"3">>, "csv"), FileName("2_", <<"7">>, "csv")} }

\* names a user may have left in OUTPUT_DIR: numbered outputs below and
\* above ten, one with a leading zero, one that is not a number, one of
\* another prefix and one of another format
NamePool ==
    { FileName("1_", <<"1">>, "csv"), FileName("1_", <<"9">>, "csv"),
      FileName("1_", <<"1", "0">>, "csv"), FileName("1_", <<"0", "3">>, "csv"),
      FileName("1_", <<"a">>, "csv"), FileName("2_", <<"2", "1">>, "csv"),
      FileName("1_", <<"1", "2">>, "xlsx") }

\* runs of parse_questions.py over the same directory
MaxRuns == 3

\* ------------------------------------------------------------------------
\* State
\* ------------------------------------------------------------------------
VARIABLES
    HAVE_BS4,       \* _HAVE_BS4, set at import
    input_exists,   \* html_path.exists()
    html_text,      \* the rows of the input file
    output_arg,     \* args.output: "auto" for None, "explicit" for a path
    out_dir_exists, \* OUTPUT_DIR exists
    files,          \* the files that exist, as paths
    pc,             \* position in main
    row_idx,        \* position of the loop over rows
    results,        \* results of extract_questions_from_html
    src_rows,       \* history: the row each record of results was built from
    stdout,         \* the lines printed, by kind
    written,        \* history: the paths write_output opened for writing
    run_no,         \* the number of the run of parse_questions.py
    \* automate_actions.py, ActionAutomator
    should_stop,        \* self.should_stop
    keyboard_listener,  \* self.keyboard_listener, by the state of its thread
    a_pc,               \* position of the main thread
    step_idx,           \* the step of run_automation being run, 0 outside run_automation
    call,               \* the method being run and its arguments
    ticks,              \* iterations left in the loop of wait
    loop_count,         \* loop_count of run_loop
    sleep_i,            \* i of "for i in range(20)" in run_loop
    stop_observed,      \* history: a check of this run_automation read should_stop as true
    fx,                 \* what the run has done to mouse, keyboard, clipboard and screen
    \* record_mouse_keyboard.py, ActionRecorder
    recording,          \* self.recording
    actions,            \* self.actions
    r_pc,               \* position of the main thread
    mouse_listener,     \* self.mouse_listener, by the state of its thread
    rec_keyboard_listener, \* self.keyboard_listener, by the state of its thread
    m_pc,               \* position of the mouse listener thread in on_click
    k_pc                \* position of the keyboard listener thread in on_press

parser_vars == <<HAVE_BS4, input_exists, html_text, output_arg, out_dir_exists, files,
                 pc, row_idx, results, src_rows, stdout, written, run_no>>
automator_vars == <<should_stop, keyboard_listener, a_pc, step_idx, call, ticks, loop_count, sleep_i,
                    stop_observed, fx>>
recorder_vars == <<recording, actions, r_pc, mouse_listener, rec_keyboard_listener, m_pc, k_pc>>

vars == <<parser_vars, automator_vars, recorder_vars>>

\* no method of ActionAutomator is being run
NoCall == [kind |-> "none", at |-> <<0, 0>>, key |-> "", text |-> "", interval |-> 0]

\* what an ActionAutomator has done so far: nothing
NoEffects ==
    [position |-> <<0, 0>>, clicks |-> 0, keys |-> 0, clipboard |-> "user",
     sleeps |-> 0, saved |-> 0, scripts |-> 0, started |-> 0, completed |-> 0]

\* ActionAutomator.__init__ (lines 25-43); run_loop is not called
AutomatorConstructed ==
    /\ should_stop = FALSE
    /\ keyboard_listener = "none"
    /\ a_pc = "constructed"
    /\ step_idx = 0
    /\ call = NoCall
    /\ ticks = 0
    /\ loop_count = 0
    /\ sleep_i = 0
    /\ stop_observed = FALSE
    /\ fx = NoEffects

\* ActionRecorder.__init__ (lines 24-30); start_recording is not called
RecorderConstructed ==
    /\ recording = FALSE
    /\ actions = <<>>
    /\ r_pc = "constructed"
    /\ mouse_listener = "none"
    /\ rec_keyboard_listener = "none"
    /\ m_pc = "idle"
    /\ k_pc = "idle"

Init ==
    /\ HAVE_BS4 \in BOOLEAN
    /\ \/ /\ input_exists = TRUE
          /\ \/ \E n \in 0..MaxChunks : \E chunks \in [1..n -> Chunks] : \E a \in AnswerCells :
                   html_text = <<QuestionRow(a, Concat(chunks))>>
             \/ \E n \in 1..MaxLines : \E first \in FirstLines : \E rest \in [1..(n - 1) -> Lines] :
                   \E a \in AnswerCells : html_text = <<QuestionRow(a, LineText(first, rest))>>
             \/ \E q \in ExampleTexts : \E a \in AnswerCells : html_text = <<QuestionRow(a, q)>>
             \/ \E n \in 0..MaxMarkers : \E pieces \in [1..n -> OptionPieces] :
                   \E a \in {<<>>, <<"5", " ", "2", "1">>} :
                       html_text = <<QuestionRow(a, OptionCellTitle \o Concat(pieces))>>
             \/ \E n \in 0..MaxRows : \E rows \in [1..n -> RowShapes] :
                   html_text = SubSeq(rows, 1, n)
          /\ output_arg = "auto"
          /\ out_dir_exists = FALSE
          /\ files = {}
       \/ /\ input_exists \in BOOLEAN
          /\ html_text \in (IF input_exists THEN MainDocs ELSE {<<>>})
          /\ output_arg \in {"auto", "explicit"}
          /\ \/ out_dir_exists = FALSE /\ files = {}
             \/ out_dir_exists = TRUE /\ \E names \in NameSamples : files = {InOutputDir(nm) : nm \in names}
             \/ out_dir_exists = FALSE /\ files = {InWorkingDir(FileName("", <<"o", "u", "t">>, "csv"))}
    /\ pc = "start"
    /\ row_idx = 1
    /\ results = <<>>
    /\ src_rows = <<>>
    /\ stdout = <<>>
    /\ written = <<>>
    /\ run_no = 1
    /\ AutomatorConstructed
    /\ RecorderConstructed

\* main, lines 254-257: the input file is missing
MainMissingInput ==
    /\ pc = "start"
    /\ ~input_exists
    /\ stdout' = Append(stdout, "missing_input")
    /\ pc' = "done"
    /\ UNCHANGED <<HAVE_BS4, input_exists, html_text, output_arg, out_dir_exists, files,
                   row_idx, results, src_rows, written>>
    /\ UNCHANGED <<run_no, automator_vars, recorder_vars>>

\* main, lines 258-260: read the file and enter extract_questions_from_html
MainReadInput ==
    /\ pc = "start"
    /\ input_exists
    /\ pc' = "extract"
    /\ row_idx' = 1
    /\ results' = <<>>
    /\ src_rows' = <<>>
    /\ UNCHANGED <<HAVE_BS4, input_exists, html_text, output_arg, out_dir_exists, files,
                   stdout, written>>
    /\ UNCHANGED <<run_no, automator_vars, recorder_vars>>

\* one iteration of "for tr in rows" (lines 48-123)
ProcessRowBS4 ==
    /\ pc = "extract"
    /\ HAVE_BS4
    /\ row_idx <= Len(html_text)
    /\ IF QualifiesBS4(html_text[row_idx])
       THEN /\ results' = Append(results, RecordBS4(html_text[row_idx]))
            /\ src_rows' = Append(src_rows, row_idx)
       ELSE UNCHANGED <<results, src_rows>>
    /\ row_idx' = row_idx + 1
    /\ UNCHANGED <<HAVE_BS4, input_exists, html_text, output_arg, out_dir_exists, files,
                   pc, stdout, written>>
    /\ UNCHANGED <<run_no, automator_vars, recorder_vars>>

\* one iteration of "for tr in trs" (lines 128-197)
ProcessRowRe ==
    /\ pc = "extract"
    /\ ~HAVE_BS4
    /\ row_idx <= Len(html_text)
    /\ IF QualifiesRe(html_text[row_idx])
       THEN /\ results' = Append(results, RecordRe(html_text[row_idx]))
            /\ src_rows' = Append(src_rows, row_idx)
       ELSE UNCHANGED <<results, src_rows>>
    /\ row_idx' = row_idx + 1
    /\ UNCHANGED <<HAVE_BS4, input_exists, html_text, output_arg, out_dir_exists, files,
                   pc, stdout, written>>
    /\ UNCHANGED <<run_no, automator_vars, recorder_vars>>

\* slip: the output directory is made before the rows are looked at
MainNoRows_MakesDir ==
    /\ pc = "extract"
    /\ row_idx > Len(html_text)
    /\ results = <<>>
    /\ stdout' = Append(stdout, "no_rows")
    /\ out_dir_exists' = TRUE
    /\ pc' = "done"
    /\ UNCHANGED <<HAVE_BS4, input_exists, html_text, output_arg, files,
                   row_idx, results, src_rows, written>>
    /\ UNCHANGED <<run_no, automator_vars, recorder_vars>>

\* main, lines 260-263: extraction returned no rows
MainNoRows ==
    /\ pc = "extract"
    /\ row_idx > Len(html_text)
    /\ results = <<>>
    /\ stdout' = Append(stdout, "no_rows")
    /\ pc' = "done"
    /\ UNCHANGED <<HAVE_BS4, input_exists, html_text, output_arg, out_dir_exists, files,
                   row_idx, results, src_rows, written>>
    /\ UNCHANGED <<run_no, automator_vars, recorder_vars>>

\* main, lines 266-267 and 271: get_next_filename (which creates the
\* directory) and write_output
MainWriteAuto ==
    /\ pc = "extract"
    /\ row_idx > Len(html_text)
    /\ results # <<>>
    /\ output_arg = "auto"
    /\ LET names == {p.name : p \in {f \in files : f.dir = "parsed_questions_csv"}}
           output_path == get_next_filename(names, FILE_PREFIX, DEFAULT_FORMAT)
       IN  /\ out_dir_exists' = TRUE
           /\ files' = files \cup {output_path}
           /\ written' = Append(written, output_path)
    /\ stdout' = Append(stdout, "written")
    /\ pc' = "done"
    /\ UNCHANGED <<HAVE_BS4, input_exists, html_text, output_arg, row_idx, results, src_rows>>
    /\ UNCHANGED <<run_no, automator_vars, recorder_vars>>

\* main, lines 268-271: write_output to the path given with -o
MainWriteExplicit ==
    /\ pc = "extract"
    /\ row_idx > Len(html_text)
    /\ results # <<>>
    /\ output_arg = "explicit"
    /\ LET output_path == InWorkingDir(FileName("", <<"o", "u", "t">>, "csv"))
       IN  /\ files' = files \cup {output_path}
           /\ written' = Append(written, output_path)
    /\ stdout' = Append(stdout, "written")
    /\ pc' = "done"
    /\ UNCHANGED <<HAVE_BS4, input_exists, html_text, output_arg, out_dir_exists,
                   row_idx, results, src_rows>>
    /\ UNCHANGED <<run_no, automator_vars, recorder_vars>>

Next ==
    \/ MainMissingInput
    \/ MainReadInput
    \/ ProcessRowBS4
    \/ ProcessRowRe
    \/ MainNoRows
    \/ MainWriteAuto
    \/ MainWriteExplicit

Spec == Init /\ [][Next]_vars

\* Runs of main over a directory that already holds files: the arguments
\* and the directory are drawn here, and the command is run again.
InitFiles ==
    /\ HAVE_BS4 \in BOOLEAN
    /\ input_exists \in BOOLEAN
    /\ html_text \in (IF input_exists THEN MainDocs ELSE {<<>>})
    /\ output_arg \in {"auto", "explicit"}
    /\ \/ out_dir_exists = FALSE /\ files = {}
       \/ out_dir_exists = TRUE /\ \E names \in SUBSET NamePool : files = {InOutputDir(nm) : nm \in names}
    /\ pc = "start"
    /\ row_idx = 1
    /\ results = <<>>
    /\ src_rows = <<>>
    /\ stdout = <<>>
    /\ written = <<>>
    /\ run_no = 1
    /\ AutomatorConstructed
    /\ RecorderConstructed

\* the command is run again: a new process of main (lines 248-253) over
\* the files the earlier runs left, with its own arguments
MainRerun ==
    /\ pc = "done"
    /\ run_no < MaxRuns
    /\ run_no' = run_no + 1
    /\ output_arg' \in {"auto", "explicit"}
    /\ pc' = "start"
    /\ row_idx' = 1
    /\ results' = <<>>
    /\ src_rows' = <<>>
    /\ stdout' = <<>>
    /\ written' = <<>>
    /\ UNCHANGED <<HAVE_BS4, input_exists, html_text, out_dir_exists, files>>
    /\ UNCHANGED <<automator_vars, recorder_vars>>

NextFiles ==
    \/ MainMissingInput
    \/ MainReadInput
    \/ ProcessRowBS4
    \/ ProcessRowRe
    \/ MainNoRows
    \/ MainWriteAuto
    \/ MainWriteExplicit
    \/ MainRerun

SpecFiles == InitFiles /\ [][NextFiles]_vars


\* ------------------------------------------------------------------------
\* automate_actions.py: ActionAutomator
\* ------------------------------------------------------------------------
\* The main thread runs run_loop; the thread of the keyboard listener runs
\* on_key_press. A listener is "alive" while it delivers keys, "stopping"
\* from the moment it is told to stop (on_key_press returned False, or
\* stop() was called) until its thread has ended, and "dead" after that;
\* is_alive() is true of the first two.

\* cycles of run_loop
MaxLoops == 2

\* the iterations of the loop of wait (lines 64-69) for a time given in
\* tenths of a second: the sum of ten steps of 0.1 is below 1.0 in floating
\* point, so wait(1) loops once more
WaitIterations(tenths) == IF tenths = 10 THEN 11 ELSE tenths

Click(x, y, interval) == [kind |-> "click", at |-> <<x, y>>, key |-> "", text |-> "", interval |-> interval]
Combination(key, interval) == [kind |-> "press_key_combination", at |-> <<0, 0>>, key |-> key, text |-> "", interval |-> interval]
Paste(text, interval) == [kind |-> "paste_text", at |-> <<0, 0>>, key |-> "v", text |-> text, interval |-> interval]
PressKey(key, interval) == [kind |-> "press_key", at |-> <<0, 0>>, key |-> key, text |-> "", interval |-> interval]
SaveClipboard == [kind |-> "save_clipboard_to_file", at |-> <<0, 0>>, key |-> "", text |-> "", interval |-> 3]
RunScript == [kind |-> "run_script", at |-> <<0, 0>>, key |-> "", text |-> "", interval |-> 5]

\* the steps of run_automation (lines 229-372), each followed by
\* "if self.should_stop: return"
AutomationSteps ==
    << Click(100, 175, 5), Click(300, 750, 5), Combination("f", 5), Paste("01. ", 5),
       Click(800, 800, 5), Click(1010, 20, 5), Click(1240, 200, 5), Paste("paste_content", 5),
       PressKey("enter", 10), Click(980, 650, 10), Click(1170, 200, 5), Click(1100, 400, 5),
       Combination("f", 5), Paste("tbody", 5), Click(1300, 445, 5), Combination("c", 5),
       SaveClipboard, RunScript, Combination("f", 5), Paste("active", 5) >>

TypeText(text, interval) == [kind |-> "type_text", at |-> <<0, 0>>, key |-> "", text |-> text, interval |-> interval]

\* a method called from run_automation returns to the check after its
\* step, one called by a script of the user returns to that script
ReturnPc == IF step_idx = 0 THEN "returned" ELSE "ra_check"

\* the five primitive actions, which begin with "if self.should_stop: return"
Primitives == {"click", "press_key_combination", "type_text", "paste_text", "press_key"}

\* the clipboard after the target application received modifier + key
ClipboardAfterKey(key, clipboard) == IF key = "c" THEN "selection" ELSE clipboard

\* run_loop, lines 380-390
RunLoopStart ==
    /\ a_pc = "constructed"
    /\ should_stop' = FALSE
    /\ keyboard_listener' = "alive"
    /\ loop_count' = 0
    /\ a_pc' = "loop_test"
    /\ UNCHANGED <<step_idx, call, ticks, sleep_i, stop_observed, fx>>
    /\ UNCHANGED <<parser_vars, recorder_vars>>

\* run_loop, lines 391-398: the loop condition, and the call of
\* run_automation
LoopTest ==
    /\ a_pc = "loop_test"
    /\ IF should_stop
       THEN a_pc' = "loop_exit" /\ UNCHANGED loop_count
       ELSE /\ loop_count < MaxLoops
            /\ loop_count' = loop_count + 1
            /\ a_pc' = "ra_ensure"
    /\ UNCHANGED <<should_stop, keyboard_listener, step_idx, call, ticks, sleep_i, stop_observed, fx>>
    /\ UNCHANGED <<parser_vars, recorder_vars>>

\* run_automation, lines 211-227: the listener is started again when there
\* is none or when its thread has ended, and should_stop is cleared with it
EnsureListener ==
    /\ a_pc = "ra_ensure"
    /\ IF keyboard_listener = "none" \/ keyboard_listener = "dead"
       THEN should_stop' = FALSE /\ keyboard_listener' = "alive"
       ELSE UNCHANGED <<should_stop, keyboard_listener>>
    /\ fx' = [fx EXCEPT !.started = @ + 1]
    /\ stop_observed' = FALSE
    /\ step_idx' = 1
    /\ a_pc' = "ra_step"
    /\ UNCHANGED <<call, ticks, loop_count, sleep_i>>
    /\ UNCHANGED <<parser_vars, recorder_vars>>

\* run_automation calls the method of its next step
InvokeStep ==
    /\ a_pc = "ra_step"
    /\ call' = AutomationSteps[step_idx]
    /\ a_pc' = "p_entry"
    /\ UNCHANGED <<should_stop, keyboard_listener, step_idx, ticks, loop_count, sleep_i, stop_observed, fx>>
    /\ UNCHANGED <<parser_vars, recorder_vars>>

\* slip: paste_text fills the clipboard before it looks at should_stop
MethodEntry_CopiesFirst ==
    /\ a_pc = "p_entry"
    /\ IF call.kind \in Primitives /\ should_stop
       THEN /\ a_pc' = ReturnPc
            /\ stop_observed' = TRUE
            /\ fx' = (IF call.kind = "paste_text" THEN [fx EXCEPT !.clipboard = call.text] ELSE fx)
            /\ UNCHANGED ticks
       ELSE /\ UNCHANGED stop_observed
            /\ CASE call.kind = "click" ->
                      /\ fx' = [fx EXCEPT !.position = call.at]
                      /\ ticks' = WaitIterations(1)
                      /\ a_pc' = "click_wait"
                 [] call.kind = "paste_text" ->
                      /\ fx' = [fx EXCEPT !.clipboard = call.text]
                      /\ a_pc' = "paste_combination"
                      /\ UNCHANGED ticks
                 [] call.kind = "press_key_combination" ->
                      /\ fx' = [fx EXCEPT !.keys = @ + 1,
                                          !.clipboard = ClipboardAfterKey(call.key, @)]
                      /\ ticks' = WaitIterations(call.interval)
                      /\ a_pc' = "p_wait"
                 [] call.kind \in {"press_key", "type_text"} ->
                      /\ fx' = [fx EXCEPT !.keys = @ + 1]
                      /\ ticks' = WaitIterations(call.interval)
                      /\ a_pc' = "p_wait"
                 [] call.kind = "save_clipboard_to_file" ->
                      /\ fx' = [fx EXCEPT !.saved = @ + 1]
                      /\ ticks' = WaitIterations(call.interval)
                      /\ a_pc' = "p_wait"
                 [] call.kind = "run_script" ->
                      /\ fx' = [fx EXCEPT !.scripts = @ + 1]
                      /\ ticks' = WaitIterations(call.interval)
                      /\ a_pc' = "p_wait"
    /\ UNCHANGED <<should_stop, keyboard_listener, step_idx, call, loop_count, sleep_i>>
    /\ UNCHANGED <<parser_vars, recorder_vars>>

\* the first lines of the method called: the check of should_stop of the
\* five primitive actions (lines 81, 100, 118, 132, 147) and what follows
\* it up to the next wait or call; save_clipboard_to_file (lines 162-167)
\* and run_script (lines 179-203) have no such check
MethodEntry ==
    /\ a_pc = "p_entry"
    /\ IF call.kind \in Primitives /\ should_stop
       THEN /\ a_pc' = ReturnPc
            /\ stop_observed' = TRUE
            /\ UNCHANGED <<ticks, fx>>
       ELSE /\ UNCHANGED stop_observed
            /\ CASE call.kind = "click" ->
                      /\ fx' = [fx EXCEPT !.position = call.at]
                      /\ ticks' = WaitIterations(1)
                      /\ a_pc' = "click_wait"
                 [] call.kind = "paste_text" ->
                      /\ fx' = [fx EXCEPT !.clipboard = call.text]
                      /\ a_pc' = "paste_combination"
                      /\ UNCHANGED ticks
                 [] call.kind = "press_key_combination" ->
                      /\ fx' = [fx EXCEPT !.keys = @ + 1,
                                          !.clipboard = ClipboardAfterKey(call.key, @)]
                      /\ ticks' = WaitIterations(call.interval)
                      /\ a_pc' = "p_wait"
                 [] call.kind \in {"press_key", "type_text"} ->
                      /\ fx' = [fx EXCEPT !.keys = @ + 1]
                      /\ ticks' = WaitIterations(call.interval)
                      /\ a_pc' = "p_wait"
                 [] call.kind = "save_clipboard_to_file" ->
                      /\ fx' = [fx EXCEPT !.saved = @ + 1]
                      /\ ticks' = WaitIterations(call.interval)
                      /\ a_pc' = "p_wait"
                 [] call.kind = "run_script" ->
                      /\ fx' = [fx EXCEPT !.scripts = @ + 1]
                      /\ ticks' = WaitIterations(call.interval)
                      /\ a_pc' = "p_wait"
    /\ UNCHANGED <<should_stop, keyboard_listener, step_idx, call, loop_count, sleep_i>>
    /\ UNCHANGED <<parser_vars, recorder_vars>>

\* paste_text, lines 135-137: press_key_combination(modifier, 'v',
\* interval=0) with its own check (lines 100-108), then the wait of
\* paste_text
PasteCombination ==
    /\ a_pc = "paste_combination"
    /\ IF should_stop
       THEN stop_observed' = TRUE /\ UNCHANGED fx
       ELSE fx' = [fx EXCEPT !.keys = @ + 1] /\ UNCHANGED stop_observed
    /\ ticks' = WaitIterations(call.interval)
    /\ a_pc' = "p_wait"
    /\ UNCHANGED <<should_stop, keyboard_listener, step_idx, call, loop_count, sleep_i>>
    /\ UNCHANGED <<parser_vars, recorder_vars>>

\* one turn of the loop of wait (lines 64-69), in click after the move
\* (line 84) or at the end of a method
WaitStep ==
    /\ a_pc \in {"click_wait", "p_wait"}
    /\ IF ticks = 0 \/ should_stop
       THEN /\ a_pc' = (IF a_pc = "click_wait" THEN "click_check" ELSE ReturnPc)
            /\ ticks' = 0
            /\ stop_observed' = (stop_observed \/ ticks > 0)
            /\ UNCHANGED fx
       ELSE /\ fx' = [fx EXCEPT !.sleeps = @ + 1]
            /\ ticks' = ticks - 1
            /\ UNCHANGED <<a_pc, stop_observed>>
    /\ UNCHANGED <<should_stop, keyboard_listener, step_idx, call, loop_count, sleep_i>>
    /\ UNCHANGED <<parser_vars, recorder_vars>>

\* click, lines 85-89
ClickCheck ==
    /\ a_pc = "click_check"
    /\ IF should_stop
       THEN /\ a_pc' = ReturnPc
            /\ stop_observed' = TRUE
            /\ UNCHANGED <<ticks, fx>>
       ELSE /\ fx' = [fx EXCEPT !.clicks = @ + 1]
            /\ ticks' = WaitIterations(call.interval)
            /\ a_pc' = "p_wait"
            /\ UNCHANGED stop_observed
    /\ UNCHANGED <<should_stop, keyboard_listener, step_idx, call, loop_count, sleep_i>>
    /\ UNCHANGED <<parser_vars, recorder_vars>>

\* run_automation, "if self.should_stop: return" after a step (lines
\* 232-233 to 371-372)
StepCheck ==
    /\ a_pc = "ra_check"
    /\ IF should_stop
       THEN /\ a_pc' = "loop_after"
            /\ step_idx' = 0
            /\ stop_observed' = TRUE
       ELSE /\ UNCHANGED stop_observed
            /\ IF step_idx < Len(AutomationSteps)
               THEN a_pc' = "ra_step" /\ step_idx' = step_idx + 1
               ELSE a_pc' = "ra_banner" /\ UNCHANGED step_idx
    /\ call' = NoCall
    /\ UNCHANGED <<should_stop, keyboard_listener, ticks, loop_count, sleep_i, fx>>
    /\ UNCHANGED <<parser_vars, recorder_vars>>

\* run_automation, lines 374-376: the completion banner
PrintCompleted ==
    /\ a_pc = "ra_banner"
    /\ fx' = [fx EXCEPT !.completed = @ + 1]
    /\ step_idx' = 0
    /\ a_pc' = "loop_after"
    /\ UNCHANGED <<should_stop, keyboard_listener, call, ticks, loop_count, sleep_i, stop_observed>>
    /\ UNCHANGED <<parser_vars, recorder_vars>>

\* run_loop, lines 401-407
LoopAfter ==
    /\ a_pc = "loop_after"
    /\ IF should_stop
       THEN a_pc' = "loop_exit" /\ UNCHANGED sleep_i
       ELSE a_pc' = "loop_sleep" /\ sleep_i' = 0
    /\ UNCHANGED <<should_stop, keyboard_listener, step_idx, call, ticks, loop_count, stop_observed, fx>>
    /\ UNCHANGED <<parser_vars, recorder_vars>>

\* run_loop, lines 408-411: one turn of "for i in range(20)"
LoopSleep ==
    /\ a_pc = "loop_sleep"
    /\ IF sleep_i = 20 \/ should_stop
       THEN a_pc' = "loop_test" /\ UNCHANGED <<sleep_i, fx>>
       ELSE /\ fx' = [fx EXCEPT !.sleeps = @ + 1]
            /\ sleep_i' = sleep_i + 1
            /\ UNCHANGED a_pc
    /\ UNCHANGED <<should_stop, keyboard_listener, step_idx, call, ticks, loop_count, stop_observed>>
    /\ UNCHANGED <<parser_vars, recorder_vars>>

\* run_loop, lines 414-419: the listener is told to stop
LoopExit ==
    /\ a_pc = "loop_exit"
    /\ keyboard_listener' = (IF keyboard_listener = "alive" THEN "stopping" ELSE keyboard_listener)
    /\ a_pc' = "returned"
    /\ UNCHANGED <<should_stop, step_idx, call, ticks, loop_count, sleep_i, stop_observed, fx>>
    /\ UNCHANGED <<parser_vars, recorder_vars>>

\* on_key_press (lines 45-50) on the thread of the listener: ESC sets
\* should_stop and returns False, which stops the listener; any other key
\* changes nothing
OnKeyPress ==
    /\ keyboard_listener = "alive"
    /\ \E key \in {"esc", "a"} :
          IF key = "esc"
          THEN should_stop' = TRUE /\ keyboard_listener' = "stopping"
          ELSE UNCHANGED <<should_stop, keyboard_listener>>
    /\ UNCHANGED <<a_pc, step_idx, call, ticks, loop_count, sleep_i, stop_observed, fx>>
    /\ UNCHANGED <<parser_vars, recorder_vars>>

\* the thread of a listener that was told to stop ends
ListenerExit ==
    /\ keyboard_listener = "stopping"
    /\ keyboard_listener' = "dead"
    /\ UNCHANGED <<should_stop, a_pc, step_idx, call, ticks, loop_count, sleep_i, stop_observed, fx>>
    /\ UNCHANGED <<parser_vars, recorder_vars>>

\* automate_actions.py run as a program (lines 422-435), or one of the
\* primitive actions called by a script of the user on an automator whose
\* should_stop an earlier run has left true or false
InitAutomator ==
    /\ \/ AutomatorConstructed
       \/ /\ should_stop \in BOOLEAN
          /\ keyboard_listener \in {"none", "dead"}
          /\ a_pc = "p_entry"
          /\ step_idx = 0
          /\ \E interval \in {0, 5} :
                call \in {Click(100, 175, interval), Combination("c", interval), TypeText("01. ", interval),
                          Paste("01. ", interval), PressKey("enter", interval)}
          /\ ticks = 0
          /\ loop_count = 0
          /\ sleep_i = 0
          /\ stop_observed = FALSE
          /\ fx = NoEffects
    /\ RecorderConstructed
    /\ HAVE_BS4 = TRUE
    /\ input_exists = FALSE
    /\ html_text = <<>>
    /\ output_arg = "auto"
    /\ out_dir_exists = FALSE
    /\ files = {}
    /\ pc = "start"
    /\ row_idx = 1
    /\ results = <<>>
    /\ src_rows = <<>>
    /\ stdout = <<>>
    /\ written = <<>>
    /\ run_no = 1

NextAutomator ==
    \/ RunLoopStart
    \/ LoopTest
    \/ EnsureListener
    \/ InvokeStep
    \/ MethodEntry
    \/ PasteCombination
    \/ WaitStep
    \/ ClickCheck
    \/ StepCheck
    \/ PrintCompleted
    \/ LoopAfter
    \/ LoopSleep
    \/ LoopExit
    \/ OnKeyPress
    \/ ListenerExit

SpecAutomator == InitAutomator /\ [][NextAutomator]_vars

\* ------------------------------------------------------------------------
\* record_mouse_keyboard.py: ActionRecorder
\* ------------------------------------------------------------------------
\* The main thread runs start_recording, the thread of the mouse listener
\* runs on_click and the thread of the keyboard listener runs on_press;
\* each listener runs one callback at a time. stop() tells a listener to
\* stop and does not wait for the callback it is running.

\* clicks and keys other than ESC recorded in one recording
MaxActions == 3

Entry(type, key) == [type |-> type, key |-> key]

\* start_recording, lines 76-97
StartRecording ==
    /\ r_pc = "constructed"
    /\ actions' = <<Entry("recording_start", "")>>
    /\ recording' = TRUE
    /\ mouse_listener' = "alive"
    /\ rec_keyboard_listener' = "alive"
    /\ r_pc' = "join"
    /\ UNCHANGED <<m_pc, k_pc>>
    /\ UNCHANGED <<parser_vars, automator_vars>>

\* start_recording, lines 100-105: keyboard_listener.join() returns when
\* the thread of the keyboard listener has ended
JoinReturns ==
    /\ r_pc = "join"
    /\ rec_keyboard_listener = "dead"
    /\ r_pc' = "stop_recording"
    /\ UNCHANGED <<recording, actions, mouse_listener, rec_keyboard_listener, m_pc, k_pc>>
    /\ UNCHANGED <<parser_vars, automator_vars>>

\* stop_recording, line 109
StopSetFlag ==
    /\ r_pc = "stop_recording"
    /\ recording' = FALSE
    /\ r_pc' = "stop_listeners"
    /\ UNCHANGED <<actions, mouse_listener, rec_keyboard_listener, m_pc, k_pc>>
    /\ UNCHANGED <<parser_vars, automator_vars>>

\* stop_recording, lines 110-113
StopListeners ==
    /\ r_pc = "stop_listeners"
    /\ mouse_listener' = (IF mouse_listener = "alive" THEN "stopping" ELSE mouse_listener)
    /\ rec_keyboard_listener' = (IF rec_keyboard_listener = "alive" THEN "stopping" ELSE rec_keyboard_listener)
    /\ r_pc' = "append_end"
    /\ UNCHANGED <<recording, actions, m_pc, k_pc>>
    /\ UNCHANGED <<parser_vars, automator_vars>>

\* stop_recording, lines 115-123, and the return of start_recording
StopAppendEnd ==
    /\ r_pc = "append_end"
    /\ actions' = Append(actions, Entry("recording_end", ""))
    /\ r_pc' = "returned"
    /\ UNCHANGED <<recording, mouse_listener, rec_keyboard_listener, m_pc, k_pc>>
    /\ UNCHANGED <<parser_vars, automator_vars>>

\* on_click, line 34: a button event reaches the callback
OnClick ==
    /\ mouse_listener = "alive"
    /\ m_pc = "idle"
    /\ Len(actions) <= MaxActions
    /\ \E pressed \in BOOLEAN :
          IF recording /\ pressed
          THEN m_pc' = "append"
          ELSE UNCHANGED m_pc
    /\ UNCHANGED <<recording, actions, r_pc, mouse_listener, rec_keyboard_listener, k_pc>>
    /\ UNCHANGED <<parser_vars, automator_vars>>

\* on_click, lines 35-44
OnClickAppend ==
    /\ m_pc = "append"
    /\ actions' = Append(actions, Entry("click", ""))
    /\ m_pc' = "idle"
    /\ UNCHANGED <<recording, r_pc, mouse_listener, rec_keyboard_listener, k_pc>>
    /\ UNCHANGED <<parser_vars, automator_vars>>

\* on_press, line 48: a key reaches the callback
OnPress ==
    /\ rec_keyboard_listener = "alive"
    /\ k_pc = "idle"
    /\ \E key \in {"esc", "a"} :
          /\ key = "esc" \/ Len(actions) <= MaxActions
          /\ IF recording
             THEN k_pc' = key
             ELSE UNCHANGED k_pc
    /\ UNCHANGED <<recording, actions, r_pc, mouse_listener, rec_keyboard_listener, m_pc>>
    /\ UNCHANGED <<parser_vars, automator_vars>>

\* on_press, lines 49-72: the entry is appended, and ESC returns False,
\* which stops the keyboard listener
OnPressAppend ==
    /\ k_pc # "idle"
    /\ actions' = Append(actions, Entry("key", k_pc))
    /\ rec_keyboard_listener' = (IF k_pc = "esc" THEN "stopping" ELSE rec_keyboard_listener)
    /\ k_pc' = "idle"
    /\ UNCHANGED <<recording, r_pc, mouse_listener, m_pc>>
    /\ UNCHANGED <<parser_vars, automator_vars>>

\* the thread of a listener that was told to stop ends once its callback
\* has returned
MouseListenerExit ==
    /\ mouse_listener = "stopping"
    /\ m_pc = "idle"
    /\ mouse_listener' = "dead"
    /\ UNCHANGED <<recording, actions, r_pc, rec_keyboard_listener, m_pc, k_pc>>
    /\ UNCHANGED <<parser_vars, automator_vars>>

KeyboardListenerExit ==
    /\ rec_keyboard_listener = "stopping"
    /\ k_pc = "idle"
    /\ rec_keyboard_listener' = "dead"
    /\ UNCHANGED <<recording, actions, r_pc, mouse_listener, m_pc, k_pc>>
    /\ UNCHANGED <<parser_vars, automator_vars>>

\* record_mouse_keyboard.py run as a program (lines 133-136)
InitRecorder ==
    /\ RecorderConstructed
    /\ AutomatorConstructed
    /\ HAVE_BS4 = TRUE
    /\ input_exists = FALSE
    /\ html_text = <<>>
    /\ output_arg = "auto"
    /\ out_dir_exists = FALSE
    /\ files = {}
    /\ pc = "start"
    /\ row_idx = 1
    /\ results = <<>>
    /\ src_rows = <<>>
    /\ stdout = <<>>
    /\ written = <<>>
    /\ run_no = 1

NextRecorder ==
    \/ StartRecording
    \/ JoinReturns
    \/ StopSetFlag
    \/ StopListeners
    \/ StopAppendEnd
    \/ OnClick
    \/ OnClickAppend
    \/ OnPress
    \/ OnPressAppend
    \/ MouseListenerExit
    \/ KeyboardListenerExit

SpecRecorder == InitRecorder /\ [][NextRecorder]_vars

TypeOK ==
    /\ pc \in {"start", "extract", "done"}
    /\ Len(results) = Len(src_rows)
    /\ should_stop \in BOOLEAN
    /\ keyboard_listener \in {"none", "alive", "stopping", "dead"}
    /\ step_idx \in 0..Len(AutomationSteps)
    /\ recording \in BOOLEAN
    /\ mouse_listener \in {"none", "alive", "stopping", "dead"}
    /\ rec_keyboard_listener \in {"none", "alive", "stopping", "dead"}
    /\ m_pc \in {"idle", "append"}
    /\ k_pc \in {"idle", "esc", "a"}

\* ------------------------------------------------------------------------
\* Properties
\* ------------------------------------------------------------------------
\* the row the k-th record was built from, and what the running path
\* computed for a row
RowOf(k) == html_text[src_rows[k]]
answer_index_of(tr) == IF HAVE_BS4 THEN AnswerIndexBS4(tr) ELSE AnswerIndexRe(tr)
q_text_of(tr) == IF HAVE_BS4 THEN QTextBS4(tr) ELSE QTextRe(tr)
Qualifies(tr) == IF HAVE_BS4 THEN QualifiesBS4(tr) ELSE QualifiesRe(tr)

\* the plain text of a cell: its markup with <br> as a line break and the
\* tags left out, trimmed
PlainText(html) == Strip(RemoveTags(BrToNewline(html)))

\* the loop over the rows has ended
Extracted == pc = "done" /\ input_exists

\* C1: on every well-formed document the two paths return the same
\* sequence of records (the finished run's results equal what the other
\* path returns on the same document).
C1_PathsAgree ==
    Extracted => results = extract_questions_from_html(html_text, ~HAVE_BS4)

\* a row qualifies, in the words of the documentation: at least 3 cells, no
\* colspan attribute on the first cell, none of the trimmed texts of the
\* first three cells equal to a header label
QualifyingRow(tr) ==
    /\ Len(tr) >= 3
    /\ tr[1].colspan = "none"
    /\ \A k \in 1..3 : PlainText(tr[k].html) \notin header_keys

\* the rows the loop has passed that produced a record
RecordedRows == {src_rows[k] : k \in 1..Len(src_rows)}

\* C2: a row produces a record if and only if it qualifies, on both paths.
C2_RecordIffQualifying ==
    \A r \in 1..Len(html_text) :
        (pc = "done" \/ r < row_idx) /\ pc # "start" /\ input_exists
            => (r \in RecordedRows <=> QualifyingRow(html_text[r]))

\* the answer index the documentation prescribes for a row: the N of the
\* first marker in the question cell's text, else the first digit 1..4 of
\* the answer cell's text, else none
PrescribedIndex(tr) ==
    IF SearchAnswerMark(PlainText(tr[3].html), 1) # None
    THEN SearchAnswerMark(PlainText(tr[3].html), 1)
    ELSE SearchDigit(PlainText(tr[2].html))

\* C3: the answer index of every recorded row is resolved in the priority
\* order marker in the question cell, first digit 1..4 of the answer cell,
\* none; an unresolved index gives the empty answer.
C3_AnswerPriority ==
    \A k \in 1..Len(results) :
        /\ answer_index_of(RowOf(k)) = PrescribedIndex(RowOf(k))
        /\ PrescribedIndex(RowOf(k)) = None => results[k].answer = <<>>

\* C4: a record whose row resolved the answer index i has answer equal to
\* options[i-1] of the code (slot i here), also when that slot is empty.
C4_AnswerIsIndexedOption ==
    \A k \in 1..Len(results) :
        answer_index_of(RowOf(k)) \in 1..4
            => results[k].answer = results[k].options[answer_index_of(RowOf(k))]

\* a record whose resolved index points at a filled slot
C4_Witness ==
    \E k \in 1..Len(results) :
        /\ answer_index_of(RowOf(k)) \in 1..4
        /\ results[k].options[answer_index_of(RowOf(k))] # <<>>
        /\ results[k].options[1] # results[k].options[2]

\* C5: every record has exactly 4 option slots, and its answer is empty or
\* one of the 4 options.
C5_RecordShape ==
    \A k \in 1..Len(results) :
        /\ DOMAIN results[k].options = 1..4
        /\ \/ results[k].answer = <<>>
           \/ \E n \in 1..4 : results[k].answer = results[k].options[n]

\* a record with a non-empty answer and all four options filled
C5_Witness ==
    \E k \in 1..Len(results) :
        /\ results[k].answer # <<>>
        /\ \A n \in 1..4 : results[k].options[n] # <<>>

\* the text the i-th marker of q_text is followed by, trimmed and collapsed
SegmentAfter(q_text, starts, i) ==
    Strip(CollapseWs(SubSeq(q_text, starts[i].last + 1,
                            IF i < Len(starts) THEN starts[i + 1].before ELSE Len(q_text))))

\* the markers of slot n
MarkersOf(starts, n) == {i \in 1..Len(starts) : starts[i].num = n}

\* a text contains no "(N)" marker
MarkerFree(text) == option_starts(text) = <<>>

\* C6 as first stated: the text after every marker is what its declared
\* slot holds, slots of undeclared numbers are empty, the text before the
\* first marker is the title and no option contains a marker.
C6_EveryMarkerStored ==
    \A k \in 1..Len(results) :
        LET q_text == q_text_of(RowOf(k))
            starts == option_starts(q_text)
        IN  starts # <<>> =>
                /\ results[k].title = CollapseWs(Strip(Take(q_text, starts[1].before)))
                /\ \A i \in 1..Len(starts) :
                       results[k].options[starts[i].num] = SegmentAfter(q_text, starts, i)
                /\ \A n \in 1..4 :
                       /\ MarkersOf(starts, n) = {} => results[k].options[n] = <<>>
                       /\ MarkerFree(results[k].options[n])

\* C6: with "(N)" markers in the question text, the title is the text
\* before the first marker, slot N holds the text after the LAST marker
\* that declares N (not the marker at scan position N), slots of undeclared
\* numbers are empty and no option contains a marker.
C6_LastMarkerStored ==
    \A k \in 1..Len(results) :
        LET q_text == q_text_of(RowOf(k))
            starts == option_starts(q_text)
        IN  starts # <<>> =>
                /\ results[k].title = CollapseWs(Strip(Take(q_text, starts[1].before)))
                /\ \A n \in 1..4 :
                       /\ MarkersOf(starts, n) = {} => results[k].options[n] = <<>>
                       /\ \A i \in MarkersOf(starts, n) :
                              (\A j \in MarkersOf(starts, n) : j <= i)
                                  => results[k].options[n] = SegmentAfter(q_text, starts, i)
                       /\ MarkerFree(results[k].options[n])

\* a record built from markers out of order, one number declared twice
C6_Witness ==
    \E k \in 1..Len(results) :
        LET q_text == q_text_of(RowOf(k))
            starts == option_starts(q_text)
        IN  /\ Len(starts) = 3
            /\ starts[1].num > starts[2].num
            /\ starts[3].num = starts[1].num
            /\ SegmentAfter(q_text, starts, 1) # SegmentAfter(q_text, starts, 3)
            /\ results[k].options[starts[2].num] # <<>>
            /\ results[k].title # <<>>

\* C7: when the question cell contains a correct-answer marker, no marker
\* text is left in the title or in any option.
C7_NoMarkerLeft ==
    \A k \in 1..Len(results) :
        SearchAnswerMark(PlainText(RowOf(k)[3].html), 1) # None
            => /\ SearchAnswerMark(results[k].title, 1) = None
               /\ \A n \in 1..4 : SearchAnswerMark(results[k].options[n], 1) = None

\* C8: without "(N)" markers the question text is split into its non-empty
\* trimmed lines; with at least 5 of them line 1 is the title and lines
\* 2..5 the options, with fewer the whole text is the title and the
\* options are empty.
C8_LineFallback ==
    \A k \in 1..Len(results) :
        LET q_text == q_text_of(RowOf(k))
            lines == StripNonEmpty(splitlines(q_text))
        IN  option_starts(q_text) = <<>> =>
                IF Len(lines) >= 5
                THEN /\ results[k].title = lines[1]
                     /\ \A n \in 1..4 : results[k].options[n] = lines[n + 1]
                ELSE /\ results[k].title = q_text
                     /\ \A n \in 1..4 : results[k].options[n] = <<>>

\* a record built from exactly 5 lines, not all alike
C8_Witness ==
    \E k \in 1..Len(results) :
        LET q_text == q_text_of(RowOf(k))
            lines == StripNonEmpty(splitlines(q_text))
        IN  /\ option_starts(q_text) = <<>>
            /\ Len(lines) = 5
            /\ results[k].options[1] # results[k].options[2]
            /\ results[k].title = lines[1]

\* the qualifying rows of the document
QualifyingRows == {r \in 1..Len(html_text) : QualifyingRow(html_text[r])}

\* C9: the result holds one record per qualifying row and nothing else, in
\* document order, and no header row contributes a record.
C9_OneRecordPerQualifyingRow ==
    Extracted =>
        /\ Len(results) = Cardinality(QualifyingRows)
        /\ RecordedRows = QualifyingRows
        /\ \A k \in 1..Len(src_rows) : \A j \in 1..Len(src_rows) : k < j => src_rows[k] < src_rows[j]
        /\ \A k \in 1..Len(results) :
               \A c \in 1..3 : PlainText(RowOf(k)[c].html) \notin header_keys

NumberedNames ==
    {nm \in {f.name : f \in {g \in files : g.dir = "parsed_questions_csv"}} :
        nm.prefix = FILE_PREFIX /\ nm.ext = DEFAULT_FORMAT /\ IsNumber(nm.stem)}

AutoWriteStep == output_arg = "auto" /\ Len(written') = Len(written) + 1

C11_NextFilename ==
    [][ /\ files \subseteq files'
        /\ AutoWriteStep =>
              LET output_path == written'[Len(written')]
                  next_num == ToInt(output_path.name.stem)
              IN  /\ output_path.dir = "parsed_questions_csv"
                  /\ output_path.name.prefix = FILE_PREFIX
                  /\ output_path.name.ext = DEFAULT_FORMAT
                  /\ IsNumber(output_path.name.stem)
                  /\ output_path.name.stem = Decimal(next_num)
                  /\ \A nm \in NumberedNames : ToInt(nm.stem) < next_num
                  /\ \/ next_num = 1 /\ NumberedNames = {}
                     \/ \E nm \in NumberedNames : ToInt(nm.stem) = next_num - 1
                  /\ output_path \notin files
                  /\ files' = files \cup {output_path} ]_vars

\* a third run has written 1_12.csv after the second wrote 1_11.csv into a
\* directory that held 1_9.csv, 1_10.csv and names that do not count
C11_Witness ==
    /\ run_no = 3
    /\ pc = "done"
    /\ written = <<InOutputDir(FileName("1_", <<"1", "2">>, "csv"))>>
    /\ {InOutputDir(FileName("1_", <<"1", "1">>, "csv")), InOutputDir(FileName("1_", <<"0", "3">>, "csv")),
        InOutputDir(FileName("1_", <<"a">>, "csv")), InOutputDir(FileName("1_", <<"1", "2">>, "xlsx"))}
          \subseteq files
    /\ InOutputDir(FileName("1_", <<"1">>, "csv")) \notin files

\* C12: while run_loop runs, should_stop, once true, is not set back to
\* false.
RunLoopRunning == loop_count > 0 \/ a_pc = "loop_test"

C12_StopIsFinal ==
    [][ (RunLoopRunning /\ a_pc # "returned" /\ should_stop) => should_stop' ]_vars

\* C13: a primitive action entered while should_stop is true returns at
\* once and does nothing (no move, click, key, clipboard change or sleep),
\* and so does the press_key_combination inside paste_text; once a check
\* has read should_stop as true the run does nothing more, starts no
\* further step and prints no completion banner.
MainThreadStep == <<a_pc, step_idx, call, ticks, sleep_i, loop_count, fx>>' # <<a_pc, step_idx, call, ticks, sleep_i, loop_count, fx>>

C13_StoppedIsNoOp ==
    [][ /\ (a_pc = "p_entry" /\ call.kind \in Primitives /\ should_stop /\ MainThreadStep)
              => (fx' = fx /\ a_pc' = ReturnPc)
        /\ (a_pc = "paste_combination" /\ should_stop /\ MainThreadStep)
              => fx' = fx
        /\ stop_observed
              => (fx' = fx /\ a_pc' \notin {"ra_step", "p_entry", "ra_banner"}) ]_vars

\* the fourth step, paste_text("01. "), was entered with should_stop true
\* and has returned: the clipboard is the user's and the only key pressed
\* is that of the third step
C13_Witness ==
    /\ a_pc = "ra_check"
    /\ step_idx = 4
    /\ should_stop
    /\ stop_observed
    /\ fx.clipboard = "user"
    /\ fx.keys = 1
    /\ fx.clicks = 2

\* C14: when start_recording has returned, the log is one recording_start,
\* then clicks and keys of which the ESC is the last key, then one
\* recording_end, and it stays so.
TypesOf(log) == [i \in 1..Len(log) |-> log[i].type]
KeyEntries(log) == {i \in 1..Len(log) : log[i].type = "key"}

C14_WellShapedLog ==
    r_pc = "returned" =>
        /\ Len(actions) >= 3
        /\ actions[1].type = "recording_start"
        /\ actions[Len(actions)].type = "recording_end"
        /\ \A i \in 2..(Len(actions) - 1) : actions[i].type \in {"click", "key"}
        /\ \E i \in KeyEntries(actions) :
              /\ actions[i].key = "esc"
              /\ \A j \in KeyEntries(actions) : j <= i /\ (actions[j].key = "esc" => j = i)

====
